---- MODULE Spec2Model ----
(***************************************************************************)
(* A state-machine model of notion_cli.py (j2d3/notion-ai-cli): process   *)
(* start-up and the per-user config store, the OAuth authorization flow   *)
(* with its callback listener thread, parent resolution, and the upload   *)
(* loop with its batched append calls.                                     *)
(*                                                                         *)
(* Strings the program inspects character by character (titles, names,    *)
(* the --parent argument) are sequences of one-character strings; the     *)
(* Python value None of an identifier is the empty sequence, which is     *)
(* falsy in Python like None.                                              *)
(***************************************************************************)
EXTENDS Integers, Sequences, FiniteSets, TLC

VARIABLES
    \* ---- the process and the config store
    store,              \* the config file: [file: "absent", "corrupt" or "json", data]
    config,             \* self.config
    client,             \* self.client: NoClient or the token the client was built with
    pc,                 \* position of the main thread
    cmd,                \* the parsed command line (args)
    exit_code,          \* "running", 0 or 1
    nproc,              \* number of processes started so far
    store0,             \* the config file as it was when this process started
    config0,            \* self.config as load_config returned it
    saves,              \* number of save_config calls of this process
    \* ---- cmd_auth and the callback listener
    authorization_code, \* self.authorization_code: NoCode or a code
    oauth_server,       \* "none", "serving", "stopping", "down"
    elapsed,            \* whole seconds of time.time() - start_time
    code_verifier,      \* the PKCE verifier of this attempt, NoCode before
    served,             \* number of requests the listener has handled
    last_request,       \* the request handled last
    last_response,      \* the status sent for it: 200, 400, 0 for no response
    observed,           \* the slot as the polling loop read it when it left the wait
    error_served,       \* a callback carrying error and no code has been served
    posts,              \* the token-exchange POSTs sent: <<[code, verifier, server, status]>>
    result,             \* state of the auth state machine
    \* ---- cmd_upload, cmd_list, cmd_search and the workspace collaborator
    fs,                 \* the file system: path -> [exists, decodable, nblocks]
    files,              \* the expanded list of files
    parent_id,          \* the resolved parent, None before
    results,            \* the local `results` of the resolver's unfiltered search,
                        \* and the items cmd_list / cmd_search were returned
    doc_parent,         \* the argument of create_documentation_page
    idx,                \* index of the file being uploaded (1-based)
    blocks,             \* the converter's blocks of the current file
    page,               \* id of the page created for the current file
    off,                \* the loop variable i of the chunk loop
    parent_type,        \* get_parent_info(...)['type'] for the current file
    title_prop_name,    \* the database's title property name
    calls,              \* the collaborator calls issued by this process, in order
    reads,              \* the files opened for reading by this process, in order
    created,            \* number of pages the collaborator has created
    resolution,         \* "none", "ok", "named_not_found", "exhausted"
    listed,             \* the items cmd_list / cmd_search printed
    \* ---- a function applied on its own
    fn_in,              \* the input
    fn_out,             \* the value returned, NotCalled before the call
    \* ---- markdown_to_notion_blocks, one loop iteration at a time
    lines,              \* markdown_content.split('\n')
    line_i,             \* the loop variable i (0-based)
    md_blocks,          \* the local `blocks`, returned when conv_pc = "done"
    code_lines,         \* the lines collected inside the open fence
    language,           \* the text after the backticks of the opening fence
    conv_pc             \* "idle", "loop", "fence", "done"

procVars == <<store, config, client, pc, cmd, exit_code, nproc, store0, config0, saves>>
authVars == <<authorization_code, oauth_server, elapsed, code_verifier, served,
              last_request, last_response, observed, error_served, posts, result>>
upVars == <<fs, files, parent_id, results, doc_parent, idx, blocks, page, off, parent_type,
            title_prop_name, calls, reads, created, resolution, listed>>
convVars == <<lines, line_i, md_blocks, code_lines, language, conv_pc>>
fnVars == <<fn_in, fn_out, convVars>>
vars == <<procVars, authVars, upVars, fnVars>>

-----------------------------------------------------------------------------
(* Bounds of the model. *)

\* processes run one after the other on the same config file
MaxProcs == 2
\* requests the callback listener handles in one auth attempt
MaxRequests == 2
\* items in one search response
MaxResults == 2
\* blocks of the largest document uploaded in SpecBatch
MaxBlocks == 250

\* lines of the longest document converted in SpecConvert
MaxLines == 3

\* characters of the longest line parsed in SpecInline, the two named lines apart
MaxText == 5

(* Program constants. *)

\* timeout = 300  # 5 minutes
timeout == 300
\* chunk_size = 100
chunk_size == 100

-----------------------------------------------------------------------------
(* Strings. *)

None == <<>>

Upper == <<"A","B","C","D","E","F","G","H","I","J","K","L","M",
           "N","O","P","Q","R","S","T","U","V","W","X","Y","Z">>
LowerOf == <<"a","b","c","d","e","f","g","h","i","j","k","l","m",
             "n","o","p","q","r","s","t","u","v","w","x","y","z">>

\* str.lower() on one character
LowerChar(c) ==
    IF \E i \in 1..Len(Upper) : Upper[i] = c
    THEN LowerOf[CHOOSE i \in 1..Len(Upper) : Upper[i] = c]
    ELSE c

\* str.lower()
Lower(s) == [i \in 1..Len(s) |-> LowerChar(s[i])]

\* str.startswith(prefix)
StartsWith(s, prefix) ==
    /\ Len(s) >= Len(prefix)
    /\ SubSeq(s, 1, Len(prefix)) = prefix

\* ''.join(list of strings)
RECURSIVE Join(_)
Join(frags) == IF frags = <<>> THEN <<>> ELSE Head(frags) \o Join(Tail(frags))

S_Documentation == <<"D","o","c","u","m","e","n","t","a","t","i","o","n">>
S_PersonalWebsite == <<"P","e","r","s","o","n","a","l"," ","W","e","b","s","i","t","e">>
S_ProjectPlanner == <<"P","r","o","j","e","c","t"," ","P","l","a","n","n","e","r">>
S_Untitled == <<"U","n","t","i","t","l","e","d">>
S_Name == <<"N","a","m","e">>
S_title == <<"t","i","t","l","e">>
S_IdPrefix == <<"2","4","f","8","f","9","7","3","-">>
S_Empty == <<>>

\* the characters str.strip() and str.rstrip() remove
Whitespace == {" ", "\t"}

\* str.lstrip(chars)
RECURSIVE LStrip(_, _)
LStrip(s, chars) ==
    IF s # <<>> /\ Head(s) \in chars THEN LStrip(Tail(s), chars) ELSE s

\* str.rstrip()
RECURSIVE RStrip(_)
RStrip(s) ==
    IF s # <<>> /\ s[Len(s)] \in Whitespace THEN RStrip(SubSeq(s, 1, Len(s) - 1)) ELSE s

\* str.strip()
Strip(s) == RStrip(LStrip(s, Whitespace))

\* str.endswith(suffix)
EndsWith(s, suffix) ==
    /\ Len(s) >= Len(suffix)
    /\ SubSeq(s, Len(s) - Len(suffix) + 1, Len(s)) = suffix

\* s[a:-b] for a, b >= 0 (s[a:] when b = 0)
Slice(s, a, b) == SubSeq(s, a + 1, Len(s) - b)

\* '\n'.join(list of strings)
RECURSIVE JoinLines(_)
JoinLines(ls) ==
    IF ls = <<>> THEN <<>>
    ELSE IF Len(ls) = 1 THEN Head(ls)
    ELSE Head(ls) \o <<"\n">> \o JoinLines(Tail(ls))

S_Star == <<"*">>
S_Stars == <<"*","*">>
S_dockerfile == <<"d","o","c","k","e","r","f","i","l","e">>
\* the grave accent U+0060, which a string of this module cannot hold
Backtick == "grave"
S_Tick == <<Backtick>>
S_Fence == <<Backtick, Backtick, Backtick>>
S_PlainText == <<"p","l","a","i","n"," ","t","e","x","t">>

-----------------------------------------------------------------------------
(* The config store. *)

Absent == "absent"
Null == "null"
NoClient == "none"
NoCode == "none"

EmptyConfig == [access_token |-> Absent, token |-> Absent,
                workspace_id |-> Absent, workspace_name |-> Absent]

\* truthiness of config.get(key)
Truthy(v) == v \notin {Absent, Null}

\* load_config: a missing file or one that does not parse is the empty config
LoadConfig_null_keys(st) ==
    IF st.file = "json" THEN st.data ELSE [key \in DOMAIN EmptyConfig |-> Null]

LoadConfig(st) == IF st.file = "json" THEN st.data ELSE EmptyConfig

\* __init__: the client is built from access_token only
InitClient(cfg) == IF Truthy(cfg.access_token) THEN cfg.access_token ELSE NoClient

\* ensure_authenticated passes
Authenticated_always(cl) == TRUE

Authenticated(cl) == cl # NoClient

\* save_config: the file is rewritten wholesale with self.config
SaveConfig(cfg) == [file |-> "json", data |-> cfg]

-----------------------------------------------------------------------------
(* The workspace collaborator: the items a search call may return. *)

Prop(name, type, frags) == [name |-> name, type |-> type, title |-> frags]

PageItem(id, props) ==
    [object |-> "page", id |-> id, properties |-> props, title |-> <<>>]

DatabaseItem(id, frags) ==
    [object |-> "database", id |-> id, properties |-> <<>>, title |-> frags]

I_doc == PageItem(<<"d","1">>, <<Prop(S_title, "title", <<S_Documentation>>)>>)
I_docdb == DatabaseItem(<<"d","2">>, <<Lower(S_Documentation)>>)
I_docpart == PageItem(<<"d","3">>, <<Prop(S_title, "title", <<<<"D","o","c">>>>)>>)
I_pw == PageItem(<<"w","1">>,
                 <<Prop(S_title, "title", <<<<"P","e","r","s","o","n","a","l"," ">>,
                                            <<"W","e","b","s","i","t","e">>>>)>>)
I_pwdb == DatabaseItem(<<"w","2">>, <<S_PersonalWebsite>>)
I_pp == DatabaseItem(<<"p","1">>, <<S_ProjectPlanner>>)
I_untitled == PageItem(<<"u","1">>, <<>>)
I_notes == PageItem(<<"n","1">>,
                    <<Prop(<<"T","a","g","s">>, "multi_select", <<>>),
                      Prop(S_Name, "title", <<<<"N","o","t","e","s">>>>)>>)
I_nodb == DatabaseItem(<<"u","2">>, <<>>)
I_source == [object |-> "data_source", id |-> <<"s","1">>, properties |-> <<>>,
             title |-> <<S_Documentation>>]

Items == {I_doc, I_docdb, I_docpart, I_pw, I_pwdb, I_pp, I_untitled, I_notes,
          I_nodb, I_source}

ResultLists == UNION {[1..n -> Items] : n \in 0..MaxResults}

\* client.search(...): it raises, or returns results
SearchOutcomes ==
    {[ok |-> FALSE, results |-> <<>>]} \cup {[ok |-> TRUE, results |-> r] : r \in ResultLists}

\* get_page_title
GetPageTitle(item) ==
    LET props == item.properties
        named == {i \in 1..Len(props) : props[i].name = S_title /\ props[i].title # <<>>}
        typed == {i \in 1..Len(props) : props[i].type = "title" /\ props[i].title # <<>>}
        first(S) == CHOOSE i \in S : \A j \in S : i <= j
    IN  IF named # {} THEN Join(props[first(named)].title)
        ELSE IF typed # {} THEN Join(props[first(typed)].title)
        ELSE S_Untitled

\* the title comparison of find_parent_by_name for one item
ItemMatches_prefix(item, parent_name) ==
    \/ /\ item.object = "page"
       /\ StartsWith(Lower(GetPageTitle(item)), Lower(parent_name))
    \/ /\ item.object = "database"
       /\ item.title # <<>>
       /\ StartsWith(Lower(Join(item.title)), Lower(parent_name))

ItemMatches(item, parent_name) ==
    \/ /\ item.object = "page"
       /\ Lower(GetPageTitle(item)) = Lower(parent_name)
    \/ /\ item.object = "database"
       /\ item.title # <<>>
       /\ Lower(Join(item.title)) = Lower(parent_name)

\* the loop of find_parent_by_name over results['results']
RECURSIVE FindIn(_, _)
FindIn(items, parent_name) ==
    IF items = <<>> THEN None
    ELSE IF ItemMatches(Head(items), parent_name) THEN Head(items).id
    ELSE FindIn(Tail(items), parent_name)

\* find_parent_by_name, given what the search call did
FindParentByName(outcome, parent_name) ==
    IF outcome.ok THEN FindIn(outcome.results, parent_name) ELSE None

\* pages = [item for item in results['results'] if item['object'] == 'page']
RECURSIVE PagesOf(_)
PagesOf(items) ==
    IF items = <<>> THEN <<>>
    ELSE IF Head(items).object = "page" THEN <<Head(items)>> \o PagesOf(Tail(items))
    ELSE PagesOf(Tail(items))

RECURSIVE DatabasesOf(_)
DatabasesOf(items) ==
    IF items = <<>> THEN <<>>
    ELSE IF Head(items).object = "database"
         THEN <<Head(items)>> \o DatabasesOf(Tail(items))
    ELSE DatabasesOf(Tail(items))

\* the client-side type filter of cmd_list
FilterType(items, type) ==
    IF type = "pages" THEN PagesOf(items)
    ELSE IF type = "databases" THEN DatabasesOf(items)
    ELSE items

\* the print loop of cmd_list and cmd_search: `title` is unbound when the first
\* item is neither a page nor a database, and the loop is left by the exception
Printed(items) ==
    IF items # <<>> /\ Head(items).object \notin {"page", "database"} THEN <<>>
    ELSE [i \in 1..Len(items) |-> items[i].id]

\* one entry of the log of collaborator calls: the operation, the query or the
\* id it is about, what the caller made of the reply (the id found by a lookup,
\* the properties of a page to create, the blocks to append), whether it returned
Call(op, target, arg, ok) == [op |-> op, target |-> target, arg |-> arg, ok |-> ok]

-----------------------------------------------------------------------------
(* The command line. *)

Args(command) ==
    [command |-> command, action |-> "", token |-> "", type |-> "all", query |-> <<>>,
     files |-> <<>>, parent |-> <<>>, title |-> "", as_project |-> FALSE]

-----------------------------------------------------------------------------
(* Process start and exit. *)

\* sys.exit(code), or main() returning
Exit(code) ==
    /\ pc' = "exited"
    /\ exit_code' = code

\* NotionCLI.__init__ and the dispatch of main()
Start(c) ==
    /\ pc = "boot"
    /\ config' = LoadConfig(store)
    /\ config0' = LoadConfig(store)
    /\ client' = InitClient(LoadConfig(store))
    /\ cmd' = c
    /\ pc' = c.command
    /\ nproc' = nproc + 1
    /\ UNCHANGED <<fnVars, store, exit_code, store0, saves, authVars, upVars>>

\* cmd_config
CmdConfig ==
    /\ pc = "config"
    /\ IF cmd.action = "set" /\ cmd.token # ""
       THEN /\ config' = [config EXCEPT !.token = cmd.token]
            /\ store' = SaveConfig([config EXCEPT !.token = cmd.token])
            /\ saves' = saves + 1
            /\ client' = cmd.token
       ELSE UNCHANGED <<config, store, saves, client>>
    /\ Exit("0")
    /\ UNCHANGED <<fnVars, cmd, nproc, store0, config0, authVars, upVars>>

\* the body of cmd_list for args.type = type
ListBody(type) ==
    /\ IF ~Authenticated(client)
       THEN /\ Exit("1")
            /\ UNCHANGED <<calls, listed, results>>
       ELSE /\ \E o \in SearchOutcomes :
                 /\ calls' = Append(calls, Call("search", S_Empty, <<>>, o.ok))
                 /\ listed' = IF o.ok THEN Printed(FilterType(o.results, type))
                              ELSE <<>>
                 /\ results' = IF o.ok THEN o.results ELSE results
            /\ Exit("0")
    /\ UNCHANGED <<fnVars, store, config, client, cmd, nproc, store0, config0, saves, authVars>>
    /\ UNCHANGED <<fs, files, parent_id, doc_parent, idx, blocks, page, off,
                   parent_type, title_prop_name, reads, created, resolution>>

\* cmd_list
CmdList ==
    /\ pc = "list"
    /\ ListBody(cmd.type)

\* cmd_search
CmdSearch ==
    /\ pc = "search"
    /\ IF ~Authenticated(client)
       THEN /\ Exit("1")
            /\ UNCHANGED <<calls, listed, results>>
       ELSE /\ \E o \in SearchOutcomes :
                 /\ calls' = Append(calls, Call("search", cmd.query, <<>>, o.ok))
                 /\ listed' = IF o.ok THEN Printed(o.results) ELSE <<>>
                 /\ results' = IF o.ok THEN o.results ELSE results
            /\ Exit("0")
    /\ UNCHANGED <<fnVars, store, config, client, cmd, nproc, store0, config0, saves, authVars>>
    /\ UNCHANGED <<fs, files, parent_id, doc_parent, idx, blocks, page, off,
                   parent_type, title_prop_name, reads, created, resolution>>

-----------------------------------------------------------------------------
(* cmd_auth and the callback listener. *)

P_callback == <<"/","n","o","t","i","o","n","-","c","a","l","l","b","a","c","k">>
P_longer == P_callback \o <<"-","x">>
P_other == <<"/","f","a","v","i","c","o","n">>

\* a GET the listener may receive: its path (without the query) and what
\* parse_qs finds in the query
Request(path, code, error) == [path |-> path, code |-> code, error |-> error]

Requests ==
    {Request(P_callback, "c1", FALSE), Request(P_callback, "c2", FALSE),
     Request(P_callback, NoCode, TRUE), Request(P_callback, "c1", TRUE),
     Request(P_callback, NoCode, FALSE),
     Request(P_longer, "c2", FALSE), Request(P_other, "c1", FALSE)}

NoRequest == [path |-> <<>>, code |-> NoCode, error |-> FALSE]

Verifiers == {"v1", "v2"}

\* what requests.post(...) may do: raise, or return a response
TokenResponses ==
    [raised : {FALSE}, status : {200}, access_token : {"A1", "A2"},
     workspace_id : {Absent, "ws1"}, workspace_name : {Absent, "Acme"}]
    \cup [raised : {FALSE}, status : {400, 500}, access_token : {Absent},
          workspace_id : {Absent}, workspace_name : {Absent}]
    \cup [raised : {TRUE}, status : {0}, access_token : {Absent},
          workspace_id : {Absent}, workspace_name : {Absent}]

\* dict.get(key) of a parsed JSON object: None when the key is missing
Get(v) == IF v = Absent THEN Null ELSE v

\* do_GET: the path test
IsCallbackPath(path) == StartsWith(path, P_callback)

\* do_GET: the slot after the request
SlotAfter_error_clears(slot, req) ==
    IF IsCallbackPath(req.path) /\ req.code # NoCode THEN req.code
    ELSE IF IsCallbackPath(req.path) /\ req.error THEN NoCode
    ELSE slot

SlotAfter(slot, req) ==
    IF IsCallbackPath(req.path) /\ req.code # NoCode THEN req.code ELSE slot

\* do_GET: the status sent, 0 when nothing is sent
StatusFor(req) ==
    IF ~IsCallbackPath(req.path) THEN 0
    ELSE IF req.code # NoCode THEN 200
    ELSE IF req.error THEN 400
    ELSE 0

\* cmd_auth up to the polling loop: PKCE parameters, start_oauth_server (which
\* fails when port 8080 is taken), the browser
AuthBegin ==
    /\ pc = "auth"
    /\ \E v \in Verifiers : code_verifier' = v
    /\ \/ /\ oauth_server' = "serving"
          /\ pc' = "auth_poll"
          /\ result' = "AwaitingCallback"
          /\ UNCHANGED exit_code
       \/ /\ result' = "ServerFailed"
          /\ Exit("0")
          /\ UNCHANGED oauth_server
    /\ elapsed' = 0
    /\ UNCHANGED <<fnVars, store, config, client, cmd, nproc, store0, config0, saves>>
    /\ UNCHANGED <<authorization_code, served, last_request, last_response, observed,
                   error_served, posts, upVars>>

\* the exit test of the polling loop
LoopContinues(slot, t) == slot = NoCode /\ t < timeout

\* while not self.authorization_code and (time.time() - start_time) < timeout:
\*     time.sleep(1)
AuthPoll ==
    /\ pc = "auth_poll"
    /\ IF LoopContinues(authorization_code, elapsed)
       THEN /\ elapsed' = elapsed + 1
            /\ UNCHANGED <<pc, observed>>
       ELSE /\ pc' = "auth_shutdown"
            /\ observed' = authorization_code
            /\ UNCHANGED elapsed
    /\ UNCHANGED <<fnVars, store, config, client, cmd, exit_code, nproc, store0, config0, saves>>
    /\ UNCHANGED <<authorization_code, oauth_server, code_verifier, served, last_request,
                   last_response, error_served, posts, result, upVars>>

\* self.oauth_server.shutdown(): the request to stop
AuthShutdown ==
    /\ pc = "auth_shutdown"
    /\ oauth_server' = "stopping"
    /\ pc' = "auth_join"
    /\ UNCHANGED <<fnVars, store, config, client, cmd, exit_code, nproc, store0, config0, saves>>
    /\ UNCHANGED <<authorization_code, elapsed, code_verifier, served, last_request,
                   last_response, observed, error_served, posts, result, upVars>>

\* the listener thread: serve_forever handles one request (do_GET); a request
\* being handled when shutdown is requested is completed
Serve(req) ==
    /\ oauth_server \in {"serving", "stopping"}
    /\ served < MaxRequests
    /\ authorization_code' = SlotAfter(authorization_code, req)
    /\ last_request' = req
    /\ last_response' = StatusFor(req)
    /\ served' = served + 1
    /\ error_served' = (error_served \/ (IsCallbackPath(req.path) /\ req.error
                                          /\ req.code = NoCode))
    /\ UNCHANGED <<fnVars, procVars, oauth_server, elapsed, code_verifier, observed, posts,
                   result, upVars>>

\* the listener thread: serve_forever sees the shutdown request and returns
ListenerExit ==
    /\ oauth_server = "stopping"
    /\ oauth_server' = "down"
    /\ UNCHANGED <<fnVars, procVars, authorization_code, elapsed, code_verifier, served,
                   last_request, last_response, observed, error_served, posts, result,
                   upVars>>

\* the test after shutdown() has returned
CodeMissing(slot, seen) == slot = NoCode

\* self.oauth_server.shutdown() returns: it blocks until serve_forever has
\* left its loop
ShutdownReturned_at_once == TRUE

ShutdownReturned == oauth_server = "down"

\* shutdown() returns; if not self.authorization_code: timed out
AuthCheck ==
    /\ pc = "auth_join"
    /\ ShutdownReturned
    /\ IF CodeMissing(authorization_code, observed)
       THEN /\ result' = "TimedOut"
            /\ Exit("0")
       ELSE /\ result' = "CodeReceived"
            /\ pc' = "auth_exchange"
            /\ UNCHANGED exit_code
    /\ UNCHANGED <<fnVars, store, config, client, cmd, nproc, store0, config0, saves>>
    /\ UNCHANGED <<authorization_code, oauth_server, elapsed, code_verifier, served,
                   last_request, last_response, observed, error_served, posts, upVars>>

\* the branch on the response of the token exchange
ExchangeOk_any_status(r) == ~r.raised

ExchangeOk(r) == ~r.raised /\ r.status = 200

\* self.config after a 200 response
ConfigAfter_keeps_verifier(cfg, r) ==
    [cfg EXCEPT !.access_token = r.access_token,
                !.workspace_id = Get(r.workspace_id),
                !.workspace_name = code_verifier]

ConfigAfter(cfg, r) ==
    [cfg EXCEPT !.access_token = r.access_token,
                !.workspace_id = Get(r.workspace_id),
                !.workspace_name = Get(r.workspace_name)]

\* the token exchange and what follows it
AuthExchange ==
    /\ pc = "auth_exchange"
    /\ \E r \in TokenResponses :
         /\ posts' = Append(posts, [code |-> authorization_code,
                                    code_verifier |-> code_verifier,
                                    server |-> oauth_server,
                                    raised |-> r.raised,
                                    status |-> r.status,
                                    access_token |-> r.access_token,
                                    workspace_id |-> r.workspace_id,
                                    workspace_name |-> r.workspace_name])
         /\ IF ExchangeOk(r)
            THEN /\ config' = ConfigAfter(config, r)
                 /\ store' = SaveConfig(ConfigAfter(config, r))
                 /\ saves' = saves + 1
                 /\ client' = r.access_token
                 /\ result' = "Authenticated"
            ELSE /\ result' = "ExchangeFailed"
                 /\ UNCHANGED <<config, store, saves, client>>
    /\ Exit("0")
    /\ UNCHANGED <<fnVars, cmd, nproc, store0, config0>>
    /\ UNCHANGED <<authorization_code, oauth_server, elapsed, code_verifier, served,
                   last_request, last_response, observed, error_served, upVars>>

-----------------------------------------------------------------------------
(* cmd_upload: file expansion, parent resolution, the upload loop. *)

procRest == <<store, config, client, cmd, nproc, store0, config0, saves>>

Paths == {"a.md", "b.md", "bad.md", "gone.md"}

\* a file argument without '*'
Literal(path) == [star |-> FALSE, path |-> path, matches |-> <<>>]

\* a file argument with '*': `matches` are the paths the pattern names
Pattern(matches) == [star |-> TRUE, path |-> "", matches |-> matches]

\* glob.glob(pattern): the files that exist among those the pattern names
RECURSIVE Existing(_, _)
Existing(paths, filesys) ==
    IF paths = <<>> THEN <<>>
    ELSE IF filesys[Head(paths)].exists
         THEN <<Head(paths)>> \o Existing(Tail(paths), filesys)
    ELSE Existing(Tail(paths), filesys)

\* the expansion loop over args.files
RECURSIVE Expand(_, _)
Expand(patterns, filesys) ==
    IF patterns = <<>> THEN <<>>
    ELSE (IF Head(patterns).star THEN Existing(Head(patterns).matches, filesys)
          ELSE <<Head(patterns).path>>) \o Expand(Tail(patterns), filesys)

\* the blocks markdown_to_notion_blocks returns for the file, in document order
BlocksOf(path, filesys) == [i \in 1..filesys[path].nblocks |-> [file |-> path, n |-> i]]

\* args.title, or the title derived from the file name
TitleFor(path) ==
    IF cmd.title # "" THEN [given |-> cmd.title, stem |-> ""]
    ELSE [given |-> "", stem |-> path]

Digits == <<"1","2","3","4","5","6","7","8","9">>

\* the id the collaborator gives the k-th page it creates
NewId(k) == <<"n", "e", "w", Digits[k]>>

\* blocks[i:i + chunk_size]
Chunk_whole(bs, i) == SubSeq(bs, i + 1, Len(bs))

Chunk(bs, i) ==
    SubSeq(bs, i + 1, IF i + chunk_size < Len(bs) THEN i + chunk_size ELSE Len(bs))

\* the resolver returned pid: cmd_upload goes on to the upload loop
GoFiles(pid) ==
    /\ parent_id' = pid
    /\ resolution' = "ok"
    /\ pc' = "file"
    /\ idx' = 1
    /\ UNCHANGED exit_code

\* the first step of a resolver left by a search for `name`
Lookup(name, found(_), missing) ==
    \E o \in SearchOutcomes :
        /\ calls' = Append(calls, Call("search", name, FindParentByName(o, name), o.ok))
        /\ IF FindParentByName(o, name) # None
           THEN found(FindParentByName(o, name))
           ELSE missing

\* cmd_upload up to the parent resolution
UploadBegin ==
    /\ pc = "upload"
    /\ IF ~Authenticated(client)
       THEN /\ Exit("1")
            /\ UNCHANGED <<files, parent_id, resolution, idx>>
       ELSE /\ files' = Expand(cmd.files, fs)
            /\ IF Expand(cmd.files, fs) = <<>>
               THEN /\ Exit("0")
                    /\ UNCHANGED <<parent_id, resolution, idx>>
               ELSE IF cmd.parent # <<>>
               THEN IF StartsWith(cmd.parent, S_IdPrefix)
                    THEN GoFiles(cmd.parent)
                    ELSE /\ pc' = "find_named"
                         /\ UNCHANGED <<exit_code, parent_id, resolution, idx>>
               ELSE /\ pc' = "chain_doc"
                    /\ UNCHANGED <<exit_code, parent_id, resolution, idx>>
    /\ UNCHANGED <<fnVars, procRest, authVars, fs, results, doc_parent, blocks, page, off,
                   parent_type, title_prop_name, calls, reads, created, listed>>

\* if not parent_id: print(...); return
AbortNamed_goes_on ==
    /\ resolution' = "named_not_found"
    /\ parent_id' = None
    /\ pc' = "file"
    /\ idx' = 1
    /\ UNCHANGED exit_code

AbortNamed ==
    /\ resolution' = "named_not_found"
    /\ Exit("0")
    /\ UNCHANGED <<parent_id, idx>>

\* parent_id = self.find_parent_by_name(args.parent)
FindNamed ==
    /\ pc = "find_named"
    /\ Lookup(cmd.parent, GoFiles, AbortNamed)
    /\ UNCHANGED <<fnVars, procRest, authVars, fs, files, results, doc_parent, blocks, page, off,
                   parent_type, title_prop_name, reads, created, listed>>

\* where get_or_create_documentation_parent goes when 'Documentation' is not found
AfterDoc_pages_only(prefer_pages) == "chain_pw"

AfterDoc(prefer_pages) == IF prefer_pages THEN "chain_pw" ELSE "chain_pp"

\* get_or_create_documentation_parent: the existing 'Documentation'
ChainDoc ==
    /\ pc = "chain_doc"
    /\ Lookup(S_Documentation, GoFiles,
              /\ pc' = AfterDoc(~cmd.as_project)
              /\ UNCHANGED <<exit_code, parent_id, resolution, idx>>)
    /\ UNCHANGED <<fnVars, procRest, authVars, fs, files, results, doc_parent, blocks, page, off,
                   parent_type, title_prop_name, reads, created, listed>>

\* create_documentation_page(parent) is called next
GoCreate(parent) ==
    /\ doc_parent' = parent
    /\ pc' = "chain_create"
    /\ UNCHANGED <<exit_code, parent_id, resolution, idx>>

\* page preference: 'Personal Website' as the parent of a new 'Documentation'
ChainPw ==
    /\ pc = "chain_pw"
    /\ Lookup(S_PersonalWebsite, GoCreate,
              /\ pc' = "chain_any"
              /\ UNCHANGED <<exit_code, parent_id, resolution, idx, doc_parent>>)
    /\ UNCHANGED <<fnVars, procRest, authVars, fs, files, results, blocks, page, off,
                   parent_type, title_prop_name, reads, created, listed>>

\* the page under which the fallback creates 'Documentation'
FallbackPage_last(pages) == pages[Len(pages)]

FallbackPage(pages) == pages[1]

\* page preference: the first page of an unfiltered search; an exception of the
\* search is swallowed
ChainAny ==
    /\ pc = "chain_any"
    /\ \E o \in SearchOutcomes :
         /\ calls' = Append(calls,
                Call("search", S_Empty,
                     IF o.ok /\ PagesOf(o.results) # <<>>
                     THEN FallbackPage(PagesOf(o.results)).id ELSE None, o.ok))
         /\ IF o.ok /\ PagesOf(o.results) # <<>>
            THEN /\ results' = o.results
                 /\ GoCreate(FallbackPage(PagesOf(o.results)).id)
            ELSE /\ pc' = "chain_final"
                 /\ UNCHANGED <<exit_code, parent_id, resolution, idx, doc_parent,
                                results>>
    /\ UNCHANGED <<fnVars, procRest, authVars, fs, files, blocks, page, off,
                   parent_type, title_prop_name, reads, created, listed>>

\* what create_documentation_page returns
DocPageResult_none_on_failure(ok, new, parent) == IF ok THEN new ELSE None

DocPageResult(ok, new, parent) == IF ok THEN new ELSE parent

\* create_documentation_page
ChainCreate ==
    /\ pc = "chain_create"
    /\ \E ok \in BOOLEAN :
         /\ calls' = Append(calls,
                Call("create", doc_parent,
                     [kind |-> "page_id", prop |-> S_title,
                      title |-> [given |-> "Documentation", stem |-> ""],
                      id |-> IF ok THEN NewId(created + 1) ELSE None], ok))
         /\ created' = IF ok THEN created + 1 ELSE created
         /\ GoFiles(DocPageResult(ok, NewId(created + 1), doc_parent))
    /\ results' = <<>>
    /\ UNCHANGED <<fnVars, procRest, authVars, fs, files, doc_parent, blocks, page, off,
                   parent_type, title_prop_name, reads, listed>>

\* database preference: 'Project Planner'
ChainPp ==
    /\ pc = "chain_pp"
    /\ Lookup(S_ProjectPlanner, GoFiles,
              /\ pc' = "chain_final"
              /\ UNCHANGED <<exit_code, parent_id, resolution, idx>>)
    /\ UNCHANGED <<fnVars, procRest, authVars, fs, files, results, doc_parent, blocks, page, off,
                   parent_type, title_prop_name, reads, created, listed>>

\* the final fallback 'Personal Website'; else the resolver raises and cmd_upload
\* reports it
ChainFinal ==
    /\ pc = "chain_final"
    /\ Lookup(S_PersonalWebsite, GoFiles,
              /\ resolution' = "exhausted"
              /\ pc' = "chain_list"
              /\ UNCHANGED <<exit_code, parent_id, idx>>)
    /\ UNCHANGED <<fnVars, procRest, authVars, fs, files, results, doc_parent, blocks, page, off,
                   parent_type, title_prop_name, reads, created, listed>>

\* the except branch of cmd_upload: cmd_list with type 'pages', then return
ChainList ==
    /\ pc = "chain_list"
    /\ ListBody("pages")

\* the loop goes on with the next file
NextFile ==
    /\ idx' = idx + 1
    /\ pc' = "file"
    /\ UNCHANGED exit_code

\* the head of the upload loop: existence test, read, conversion. A file that
\* does not decode as UTF-8 raises out of cmd_upload and ends the process
FileNext ==
    /\ pc = "file"
    /\ IF idx > Len(files)
       THEN /\ Exit("0")
            /\ UNCHANGED <<idx, reads, blocks>>
       ELSE IF ~fs[files[idx]].exists
       THEN /\ NextFile
            /\ UNCHANGED <<reads, blocks>>
       ELSE /\ reads' = Append(reads, files[idx])
            /\ IF fs[files[idx]].decodable
               THEN /\ blocks' = BlocksOf(files[idx], fs)
                    /\ pc' = "retrieve_page"
                    /\ UNCHANGED <<exit_code, idx>>
               ELSE /\ Exit("1")
                    /\ UNCHANGED <<idx, blocks>>
    /\ UNCHANGED <<fnVars, procRest, authVars, fs, files, parent_id, results, doc_parent, page,
                   off, parent_type, title_prop_name, calls, created, resolution, listed>>

\* get_parent_info: self.client.pages.retrieve(parent_id)
RetrievePage ==
    /\ pc = "retrieve_page"
    /\ \E ok \in BOOLEAN :
         /\ calls' = Append(calls, Call("retrieve_page", parent_id, <<>>, ok))
         /\ IF ok
            THEN /\ parent_type' = "page"
                 /\ pc' = "create"
            ELSE /\ pc' = "retrieve_database"
                 /\ UNCHANGED parent_type
    /\ UNCHANGED <<fnVars, procRest, exit_code, authVars, fs, files, parent_id, results,
                   doc_parent, idx, blocks, page, off, title_prop_name, reads, created,
                   resolution, listed>>

\* get_parent_info: self.client.databases.retrieve(parent_id), with the
\* fallback 'page' when both calls fail
RetrieveDatabase ==
    /\ pc = "retrieve_database"
    /\ \E ok \in BOOLEAN :
         /\ calls' = Append(calls, Call("retrieve_database", parent_id, <<>>, ok))
         /\ IF ok
            THEN /\ parent_type' = "database"
                 /\ pc' = "title_prop"
            ELSE /\ parent_type' = "page"
                 /\ pc' = "create"
    /\ UNCHANGED <<fnVars, procRest, exit_code, authVars, fs, files, parent_id, results,
                   doc_parent, idx, blocks, page, off, title_prop_name, reads, created,
                   resolution, listed>>

TitlePropNames == {S_Name, <<"T","a","s","k">>}

\* get_database_title_property: the name of the title property, "Name" when
\* the call fails or no property has the type
TitleProp ==
    /\ pc = "title_prop"
    /\ \E ok \in BOOLEAN, name \in TitlePropNames :
         /\ calls' = Append(calls, Call("retrieve_database", parent_id, <<>>, ok))
         /\ title_prop_name' = IF ok THEN name ELSE S_Name
    /\ pc' = "create"
    /\ UNCHANGED <<fnVars, procRest, exit_code, authVars, fs, files, parent_id, results,
                   doc_parent, idx, blocks, page, off, parent_type, reads, created,
                   resolution, listed>>

\* self.client.pages.create(...) for the file; a failure is caught and the
\* loop goes on with the next file
CreatePage ==
    /\ pc = "create"
    /\ \E ok \in BOOLEAN :
         /\ calls' = Append(calls,
                Call("create", parent_id,
                     [kind |-> IF parent_type = "database" THEN "database_id"
                               ELSE "page_id",
                      prop |-> IF parent_type = "database" THEN title_prop_name
                               ELSE S_title,
                      title |-> TitleFor(files[idx]),
                      id |-> IF ok THEN NewId(created + 1) ELSE None], ok))
         /\ IF ok
            THEN /\ page' = NewId(created + 1)
                 /\ created' = created + 1
                 /\ off' = 0
                 /\ pc' = "append"
                 /\ UNCHANGED <<exit_code, idx>>
            ELSE /\ NextFile
                 /\ UNCHANGED <<page, created, off>>
    /\ UNCHANGED <<fnVars, procRest, authVars, fs, files, parent_id, results, doc_parent,
                   blocks, parent_type, title_prop_name, reads, resolution, listed>>

\* except Exception as e: print(...) around the chunk loop
AppendFailed_goes_on ==
    /\ off' = off + chunk_size
    /\ UNCHANGED <<pc, exit_code, idx>>

AppendFailed ==
    /\ NextFile
    /\ UNCHANGED off

\* one iteration of the chunk loop: self.client.blocks.children.append(...);
\* a failure is caught and the loop over the files goes on
AppendChunk ==
    /\ pc = "append"
    /\ IF off >= Len(blocks)
       THEN /\ NextFile
            /\ UNCHANGED <<calls, off>>
       ELSE \E ok \in BOOLEAN :
              /\ calls' = Append(calls, Call("append", page, Chunk(blocks, off), ok))
              /\ IF ok
                 THEN /\ off' = off + chunk_size
                      /\ UNCHANGED <<pc, exit_code, idx>>
                 ELSE AppendFailed
    /\ UNCHANGED <<fnVars, procRest, authVars, fs, files, parent_id, results, doc_parent,
                   blocks, page, parent_type, title_prop_name, reads, created,
                   resolution, listed>>

-----------------------------------------------------------------------------
(* parse_inline_formatting: one line of paragraph text to its spans. *)

\* the least j >= from at which pat occurs in text, 0 when there is none
FindFrom(text, pat, from) ==
    LET at == {j \in from..(Len(text) - Len(pat) + 1) :
                  SubSeq(text, j, j + Len(pat) - 1) = pat}
    IN  IF at = {} THEN 0 ELSE CHOOSE j \in at : \A k \in at : j <= k

\* the match of (\*\*.*?\*\*|\*.*?\*|_.*?_) that starts at position p, as the
\* position of its last character, 0 when none of the three alternatives
\* matches there (_ stands for the grave accent); the alternatives are tried
\* in order and each takes the nearest closing marker
MatchEnd(text, p) ==
    IF p < Len(text) /\ SubSeq(text, p, p + 1) = S_Stars /\ FindFrom(text, S_Stars, p + 2) # 0
    THEN FindFrom(text, S_Stars, p + 2) + 1
    ELSE IF text[p] = "*" /\ FindFrom(text, S_Star, p + 1) # 0
    THEN FindFrom(text, S_Star, p + 1)
    ELSE IF text[p] = Backtick /\ FindFrom(text, S_Tick, p + 1) # 0
    THEN FindFrom(text, S_Tick, p + 1)
    ELSE 0

\* re.split(pattern, text) from position p on, `start` being where the
\* literal part under way began: literal, match, literal, ..., literal
RECURSIVE Split(_, _, _)
Split(text, p, start) ==
    IF p > Len(text) THEN <<SubSeq(text, start, Len(text))>>
    ELSE IF MatchEnd(text, p) # 0
    THEN <<SubSeq(text, start, p - 1), SubSeq(text, p, MatchEnd(text, p))>>
            \o Split(text, MatchEnd(text, p) + 1, MatchEnd(text, p) + 1)
    ELSE Split(text, p + 1, start)

Span(style, content) == [style |-> style, content |-> content]

\* the regular-text branch: a part that is only whitespace adds no span
PlainPart(part) == IF Strip(part) # <<>> THEN <<Span("plain", part)>> ELSE <<>>

\* the body of the loop over the parts
PartSpans(part) ==
    IF part = <<>> THEN <<>>
    ELSE IF StartsWith(part, S_Stars) /\ EndsWith(part, S_Stars)
    THEN <<Span("bold", Slice(part, 2, 2))>>
    ELSE IF StartsWith(part, S_Star) /\ EndsWith(part, S_Star)
    THEN <<Span("italic", Slice(part, 1, 1))>>
    ELSE IF StartsWith(part, S_Tick) /\ EndsWith(part, S_Tick)
    THEN <<Span("code", Slice(part, 1, 1))>>
    ELSE PlainPart(part)

RECURSIVE SpansOf(_)
SpansOf(parts) ==
    IF parts = <<>> THEN <<>> ELSE PartSpans(Head(parts)) \o SpansOf(Tail(parts))

\* parse_inline_formatting(text)
ParseInlineFormatting(text) ==
    IF SpansOf(Split(text, 1, 1)) # <<>> THEN SpansOf(Split(text, 1, 1))
    ELSE <<Span("plain", text)>>

-----------------------------------------------------------------------------
(* markdown_to_notion_blocks: the document's lines to its blocks. *)

Block(type, text, lang, rich_text) ==
    [type |-> type, text |-> text, language |-> lang, rich_text |-> rich_text]

\* a block whose rich_text is the one unstyled text
TextBlock(type, text) == Block(type, text, <<>>, <<Span("plain", text)>>)

\* len(line) - len(line.lstrip('#'))
Level(line) == Len(line) - Len(LStrip(line, {"#"}))

\* the if / elif / else that picks heading_type
HeadingType_unclamped(level) ==
    IF level = 1 THEN "heading_1"
    ELSE IF level = 2 THEN "heading_2"
    ELSE IF level = 3 THEN "heading_3"
    ELSE "heading_4"

HeadingType(level) ==
    IF level = 1 THEN "heading_1"
    ELSE IF level = 2 THEN "heading_2"
    ELSE "heading_3"

\* mapped_language: language_mapping.get(language.lower(), language.lower()),
\* and the fallback for an empty result
MappedLanguage_as_written(lang) ==
    LET key == lang
        got == IF key = <<"j","i","n","j","a","2">> THEN <<"h","t","m","l">>
               ELSE IF key = <<"y","m","l">> THEN <<"y","a","m","l">>
               ELSE IF key = S_dockerfile THEN <<"d","o","c","k","e","r">>
               ELSE IF key = <<>> THEN S_PlainText
               ELSE key
    IN  IF got = <<>> THEN S_PlainText ELSE got

MappedLanguage(lang) ==
    LET key == Lower(lang)
        got == IF key = <<"j","i","n","j","a","2">> THEN <<"h","t","m","l">>
               ELSE IF key = <<"y","m","l">> THEN <<"y","a","m","l">>
               ELSE IF key = S_dockerfile THEN <<"d","o","c","k","e","r">>
               ELSE IF key = <<>> THEN S_PlainText
               ELSE key
    IN  IF got = <<>> THEN S_PlainText ELSE got

Digit == {"0","1","2","3","4","5","6","7","8","9"}

\* the length of the match of ^\d+\. at the start of line, 0 for no match
\* (the pattern ends with a space)
NumberedPrefix(line) ==
    LET n == Len(line) - Len(LStrip(line, Digit))
    IN  IF n >= 1 /\ Len(line) >= n + 2 /\ line[n + 1] = "." /\ line[n + 2] = " "
        THEN n + 2 ELSE 0

\* the block a line outside a fence becomes (line is rstripped and not empty,
\* and does not open a fence)
LineBlock_no_numbered(line) ==
    IF StartsWith(line, <<"#">>)
    THEN TextBlock(HeadingType(Level(line)), Strip(LStrip(line, {"#", " "})))
    ELSE IF StartsWith(line, <<"-", " ">>) \/ StartsWith(line, <<"*", " ">>)
    THEN TextBlock("bulleted_list_item", Strip(Slice(line, 2, 0)))
    ELSE Block("paragraph", <<>>, <<>>, ParseInlineFormatting(line))

LineBlock(line) ==
    IF StartsWith(line, <<"#">>)
    THEN TextBlock(HeadingType(Level(line)), Strip(LStrip(line, {"#", " "})))
    ELSE IF StartsWith(line, <<"-", " ">>) \/ StartsWith(line, <<"*", " ">>)
    THEN TextBlock("bulleted_list_item", Strip(Slice(line, 2, 0)))
    ELSE IF NumberedPrefix(line) # 0
    THEN TextBlock("numbered_list_item", Strip(Slice(line, NumberedPrefix(line), 0)))
    ELSE Block("paragraph", <<>>, <<>>, ParseInlineFormatting(line))

\* the block of a fence once its lines are collected
CodeBlock(lang, collected) ==
    Block("code", JoinLines(collected), MappedLanguage(lang),
          <<Span("plain", JoinLines(collected))>>)

convRest == <<fn_in, procVars, authVars, upVars>>

\* while i < len(lines): one iteration on a line outside a fence
ConvLine ==
    /\ conv_pc = "loop"
    /\ line_i < Len(lines)
    /\ LET line == RStrip(lines[line_i + 1])
       IN  IF line = <<>>
           THEN /\ line_i' = line_i + 1
                /\ UNCHANGED <<md_blocks, code_lines, language, conv_pc>>
           ELSE IF StartsWith(line, S_Fence)
           THEN /\ language' = Strip(Slice(line, 3, 0))
                /\ code_lines' = <<>>
                /\ line_i' = line_i + 1
                /\ conv_pc' = "fence"
                /\ UNCHANGED md_blocks
           ELSE /\ md_blocks' = Append(md_blocks, LineBlock(line))
                /\ line_i' = line_i + 1
                /\ UNCHANGED <<code_lines, language, conv_pc>>
    /\ UNCHANGED <<lines, fn_out, convRest>>

\* the condition of the inner while
FenceOpen_stops_at_blank ==
    /\ line_i < Len(lines)
    /\ ~StartsWith(lines[line_i + 1], S_Fence)
    /\ lines[line_i + 1] # <<>>

FenceOpen ==
    /\ line_i < Len(lines)
    /\ ~StartsWith(lines[line_i + 1], S_Fence)

\* one iteration of the inner while, or its exit: the code block is appended
\* and the i += 1 at the foot of the outer loop steps over the closing fence
ConvFence ==
    /\ conv_pc = "fence"
    /\ IF FenceOpen
       THEN /\ code_lines' = Append(code_lines, lines[line_i + 1])
            /\ line_i' = line_i + 1
            /\ UNCHANGED <<md_blocks, conv_pc>>
       ELSE /\ md_blocks' = Append(md_blocks, CodeBlock(language, code_lines))
            /\ line_i' = line_i + 1
            /\ conv_pc' = "loop"
            /\ UNCHANGED code_lines
    /\ UNCHANGED <<lines, language, fn_out, convRest>>

\* return blocks
ConvReturn ==
    /\ conv_pc = "loop"
    /\ line_i >= Len(lines)
    /\ conv_pc' = "done"
    /\ UNCHANGED <<lines, line_i, md_blocks, code_lines, language, fn_out, convRest>>

-----------------------------------------------------------------------------
(* Initial states. *)

\* the config files a process may find
Stores ==
    {[file |-> "absent", data |-> EmptyConfig],
     [file |-> "corrupt", data |-> EmptyConfig],
     [file |-> "json", data |-> [EmptyConfig EXCEPT !.token = "T0"]],
     [file |-> "json", data |-> [EmptyConfig EXCEPT !.access_token = "A0",
                                                    !.workspace_id = "ws0",
                                                    !.workspace_name = Null]]}

InitProc(stores) ==
    /\ store \in stores
    /\ store0 = store
    /\ config = EmptyConfig
    /\ config0 = EmptyConfig
    /\ client = NoClient
    /\ pc = "boot"
    /\ cmd = Args("")
    /\ exit_code = "running"
    /\ nproc = 0
    /\ saves = 0

InitAuth ==
    /\ authorization_code = NoCode
    /\ oauth_server = "none"
    /\ elapsed = 0
    /\ code_verifier = NoCode
    /\ served = 0
    /\ last_request = NoRequest
    /\ last_response = 0
    /\ observed = NoCode
    /\ error_served = FALSE
    /\ posts = <<>>
    /\ result = "Idle"

\* the files on disk: a.md converts to 1 block, b.md to chunk_size + 1 blocks,
\* bad.md is not UTF-8, gone.md does not exist
File(exists, decodable, nblocks) ==
    [exists |-> exists, decodable |-> decodable, nblocks |-> nblocks]

FileSystem ==
    [p \in Paths |->
        IF p = "a.md" THEN File(TRUE, TRUE, 1)
        ELSE IF p = "b.md" THEN File(TRUE, TRUE, chunk_size + 1)
        ELSE IF p = "bad.md" THEN File(TRUE, FALSE, 0)
        ELSE File(FALSE, FALSE, 0)]

InitUp(filesys) ==
    /\ fs = filesys
    /\ files = <<>>
    /\ parent_id = None
    /\ results = <<>>
    /\ doc_parent = None
    /\ idx = 0
    /\ blocks = <<>>
    /\ page = None
    /\ off = 0
    /\ parent_type = "none"
    /\ title_prop_name = <<>>
    /\ calls = <<>>
    /\ reads = <<>>
    /\ created = 0
    /\ resolution = "none"
    /\ listed = <<>>

NotCalled == <<"not called">>

\* no conversion is under way
InitConv ==
    /\ lines = <<>>
    /\ line_i = 0
    /\ md_blocks = <<>>
    /\ code_lines = <<>>
    /\ language = <<>>
    /\ conv_pc = "idle"

InitFn ==
    /\ fn_in = <<>>
    /\ fn_out = NotCalled
    /\ InitConv

-----------------------------------------------------------------------------
(* The auth command: one process running cmd_auth beside its listener. *)

\* `notion auth`
AuthCommand == Args("auth")

NextAuth ==
    \/ Start(AuthCommand)
    \/ AuthBegin
    \/ AuthPoll
    \/ AuthShutdown
    \/ \E req \in Requests : Serve(req)
    \/ ListenerExit
    \/ AuthCheck
    \/ AuthExchange

InitAuthSpec == InitProc(Stores) /\ InitAuth /\ InitUp(FileSystem) /\ InitFn

SpecAuth == InitAuthSpec /\ [][NextAuth]_vars

-----------------------------------------------------------------------------
(* The upload command: one authenticated process running cmd_upload. *)

S_Notes == <<"n","o","t","e","s">>
S_Doc == <<"D","o","c">>
S_AnId == S_IdPrefix \o <<"a","b">>

Upload(patterns, parent, as_project, title) ==
    [Args("upload") EXCEPT !.files = patterns, !.parent = parent,
                           !.as_project = as_project, !.title = title]

UploadCommands ==
    {Upload(<<Literal("a.md")>>, <<>>, FALSE, ""),
     Upload(<<Literal("a.md")>>, <<>>, TRUE, ""),
     Upload(<<Literal("a.md"), Literal("b.md")>>, <<>>, FALSE, "Guide"),
     Upload(<<Literal("b.md"), Literal("a.md")>>, S_AnId, FALSE, ""),
     Upload(<<Literal("gone.md"), Literal("a.md")>>, S_Notes, FALSE, ""),
     Upload(<<Literal("bad.md"), Literal("a.md")>>, S_AnId, FALSE, ""),
     Upload(<<Literal("a.md"), Literal("a.md")>>, S_Doc, TRUE, ""),
     Upload(<<Pattern(<<"a.md", "gone.md", "b.md">>)>>, S_Untitled, FALSE, ""),
     Upload(<<Pattern(<<"gone.md">>)>>, <<>>, FALSE, ""),
     Upload(<<Pattern(<<"a.md", "bad.md">>), Literal("a.md")>>, S_AnId, FALSE, "")}

AuthenticatedStores ==
    {[file |-> "json", data |-> [EmptyConfig EXCEPT !.access_token = "A0",
                                                    !.workspace_id = "ws0",
                                                    !.workspace_name = Null]]}

NextUpload ==
    \/ \E c \in UploadCommands : Start(c)
    \/ UploadBegin
    \/ FindNamed
    \/ ChainDoc
    \/ ChainPw
    \/ ChainAny
    \/ ChainCreate
    \/ ChainPp
    \/ ChainFinal
    \/ ChainList
    \/ FileNext
    \/ RetrievePage
    \/ RetrieveDatabase
    \/ TitleProp
    \/ CreatePage
    \/ AppendChunk

InitUploadSpec ==
    InitProc(AuthenticatedStores) /\ InitAuth /\ InitUp(FileSystem) /\ InitFn

SpecUpload == InitUploadSpec /\ [][NextUpload]_vars

-----------------------------------------------------------------------------
(* Claims about cmd_auth, checked under SpecAuth. *)

\* the polling loop has been left, and it was left with no code in the slot:
\* the deadline has been exceeded without a code having been received
DeadlineExceeded ==
    /\ pc \in {"auth_shutdown", "auth_join", "auth_exchange", "exited"}
    /\ result # "ServerFailed"
    /\ observed = NoCode

\* C1: once the polling loop has been left on the deadline with no code
\* received, no token exchange is ever sent and the flow ends TimedOut with the
\* listener shut down, whatever the listener serves afterwards.
C1_TimeoutIsTerminal ==
    DeadlineExceeded =>
        /\ posts = <<>>
        /\ pc = "exited" => (result = "TimedOut" /\ oauth_server = "down")

\* C2: after the listener has served a callback carrying `error` and no
\* `code`, no token exchange is sent and no token is written to the config
\* store.
C2_ProviderErrorIsTerminal ==
    error_served =>
        /\ posts = <<>>
        /\ store = store0

\* C3: at the end of cmd_auth a 200 response of the token exchange has been
\* persisted (access_token, workspace_id and workspace_name, a missing one as
\* null) and the flow is Authenticated; after any other response, or a POST
\* that raised, the flow is ExchangeFailed and self.config, the config file
\* and the client are what they were when the process started.
C3_ExchangeOutcome ==
    \A i \in 1..Len(posts) :
        LET r == posts[i] IN
        IF ~r.raised /\ r.status = 200
        THEN /\ result = "Authenticated"
             /\ store.file = "json"
             /\ store.data.access_token = r.access_token
             /\ store.data.workspace_id =
                    (IF r.workspace_id = Absent THEN Null ELSE r.workspace_id)
             /\ store.data.workspace_name =
                    (IF r.workspace_name = Absent THEN Null ELSE r.workspace_name)
             /\ store.data.token = config0.token
             /\ config = store.data
        ELSE /\ result = "ExchangeFailed"
             /\ config = config0
             /\ store = store0
             /\ saves = 0
             /\ client = (IF config0.access_token \in {Absent, Null} THEN NoClient
                          ELSE config0.access_token)

\* a 200 response replaced the token of an already authenticated user
C3_Witness ==
    /\ pc = "exited"
    /\ Len(posts) = 1
    /\ posts[1].status = 200
    /\ posts[1].workspace_id = Absent
    /\ store0.file = "json"
    /\ store0.data.access_token = "A0"
    /\ store.data.access_token = "A2"
    /\ client = "A2"

-----------------------------------------------------------------------------
(* The command line tool: processes run one after the other on the same     *)
(* config file, each running config, list, search or upload.                *)

\* the process has ended; the next invocation starts with fresh memory and the
\* config file as it was left
Reboot ==
    /\ pc = "exited"
    /\ nproc < MaxProcs
    /\ pc' = "boot"
    /\ exit_code' = "running"
    /\ config' = EmptyConfig
    /\ config0' = EmptyConfig
    /\ client' = NoClient
    /\ cmd' = Args("")
    /\ store0' = store
    /\ saves' = 0
    /\ files' = <<>>
    /\ parent_id' = None
    /\ results' = <<>>
    /\ doc_parent' = None
    /\ idx' = 0
    /\ blocks' = <<>>
    /\ page' = None
    /\ off' = 0
    /\ parent_type' = "none"
    /\ title_prop_name' = <<>>
    /\ calls' = <<>>
    /\ reads' = <<>>
    /\ resolution' = "none"
    /\ listed' = <<>>
    /\ UNCHANGED <<fnVars, store, nproc, authVars, fs, created>>

CliCommands ==
    {[Args("config") EXCEPT !.action = "set", !.token = "T1"],
     [Args("config") EXCEPT !.action = "show"],
     Args("list"),
     [Args("list") EXCEPT !.type = "pages"],
     [Args("list") EXCEPT !.type = "databases"],
     [Args("search") EXCEPT !.query = S_Notes],
     Upload(<<Literal("a.md")>>, <<>>, FALSE, ""),
     Upload(<<Literal("a.md")>>, <<>>, TRUE, ""),
     Upload(<<Literal("gone.md"), Literal("a.md")>>, S_Notes, FALSE, "")}

NextCli ==
    \/ \E c \in CliCommands : Start(c)
    \/ CmdConfig
    \/ CmdList
    \/ CmdSearch
    \/ UploadBegin
    \/ FindNamed
    \/ ChainDoc
    \/ ChainPw
    \/ ChainAny
    \/ ChainCreate
    \/ ChainPp
    \/ ChainFinal
    \/ ChainList
    \/ FileNext
    \/ RetrievePage
    \/ RetrieveDatabase
    \/ TitleProp
    \/ CreatePage
    \/ AppendChunk
    \/ Reboot

InitCliSpec == InitProc(Stores) /\ InitAuth /\ InitUp(FileSystem) /\ InitFn

SpecCli == InitCliSpec /\ [][NextCli]_vars

\* C4: in a process started after `config set T1` wrote the config file, the
\* commands upload, list and search have a client (they pass
\* ensure_authenticated).
C4_ManualTokenAuthenticates ==
    (/\ pc \in {"upload", "list", "search"}
     /\ store0.file = "json"
     /\ store0.data.token = "T1")
    => Authenticated(client)

\* C5: upload, list and search without a client end the process with exit
\* code 1 in their first step, with no collaborator call issued, no file read
\* and the config file not written.
C5_NoCredentialNoEffects ==
    (/\ cmd.command \in {"upload", "list", "search"}
     /\ client = NoClient
     /\ pc # "boot")
    => /\ pc \in {cmd.command, "exited"}
       /\ pc = "exited" => exit_code = "1"
       /\ calls = <<>>
       /\ reads = <<>>
       /\ listed = <<>>
       /\ files = <<>>
       /\ saves = 0
       /\ store = store0

\* an upload was refused for want of a credential
C5_Witness ==
    /\ cmd.command = "upload"
    /\ client = NoClient
    /\ pc = "exited"
    /\ exit_code = "1"

-----------------------------------------------------------------------------
(* Claims about parent resolution, checked under SpecUpload. *)

\* C6: when the resolution failed (the named --parent was not found, or the
\* fallback chain was exhausted) the process has issued no create-page and no
\* append-children call and has read no file, and it never enters the upload
\* loop.
C6_NoPartialWrite ==
    resolution \in {"named_not_found", "exhausted"} =>
        /\ \A i \in 1..Len(calls) : calls[i].op \notin {"create", "append"}
        /\ reads = <<>>
        /\ pc \in {"chain_list", "exited"}

\* the fallback chain was exhausted and the pages were listed
C6_Witness ==
    /\ resolution = "exhausted"
    /\ pc = "exited"
    /\ Len(calls) = 5
    /\ calls[5].op = "search"

\* the steps of the fallback chain, as the names searched for in order
ChainSteps ==
    IF cmd.as_project
    THEN <<S_Documentation, S_ProjectPlanner, S_PersonalWebsite>>
    ELSE <<S_Documentation, S_PersonalWebsite, S_Empty, S_PersonalWebsite>>

\* the number of search calls at the head of the log
LeadingSearches ==
    IF \A i \in 1..Len(calls) : calls[i].op = "search" THEN Len(calls)
    ELSE (CHOOSE i \in 1..Len(calls) :
              /\ calls[i].op # "search"
              /\ \A j \in 1..(i - 1) : calls[j].op = "search") - 1

\* C7: with no --parent, the resolver searches for the names of the chain in
\* order, every step before the last one tried having failed; it returns at
\* the first step that succeeds, with no later step's call made: the id found
\* (Documentation, Project Planner, the final Personal Website), or, in page
\* mode at Personal Website or the unfiltered search, the outcome of creating
\* 'Documentation' under the id found; and it raises only when every step of
\* the chain has been tried and has failed.
C7_FallbackChain ==
    (cmd.command = "upload" /\ cmd.parent = <<>> /\ resolution # "none") =>
        LET m == IF resolution = "exhausted" THEN Len(ChainSteps) ELSE LeadingSearches
            creates == ~cmd.as_project /\ m \in {2, 3}
            k == IF creates THEN m + 1 ELSE m
        IN  /\ m \in 1..Len(ChainSteps)
            /\ Len(calls) >= m
            /\ \A i \in 1..m : /\ calls[i].op = "search"
                               /\ calls[i].target = ChainSteps[i]
            /\ \A i \in 1..(m - 1) : calls[i].arg = None
            /\ IF resolution = "exhausted"
               THEN /\ calls[m].arg = None
                    /\ \A i \in 1..Len(calls) : calls[i].op = "search"
                    /\ Len(calls) <= m + 1
               ELSE /\ calls[m].arg # None
                    /\ IF creates
                       THEN /\ calls[k].op = "create"
                            /\ calls[k].target = calls[m].arg
                            /\ calls[k].arg.kind = "page_id"
                            /\ calls[k].arg.title.given = "Documentation"
                            /\ parent_id = IF calls[k].ok THEN calls[k].arg.id
                                           ELSE calls[k].target
                       ELSE parent_id = calls[m].arg
                    /\ Len(calls) > k => calls[k + 1].op = "retrieve_page"

\* page mode: only the last step, the final 'Personal Website', succeeded
C7_Witness ==
    /\ ~cmd.as_project
    /\ resolution = "ok"
    /\ Len(calls) = 4
    /\ calls[3].target = S_Empty
    /\ calls[3].arg = None
    /\ calls[4].op = "search"
    /\ calls[4].arg = I_pwdb.id
    /\ parent_id = I_pwdb.id

\* the id of the first page of a search response
FirstPageId(items) ==
    items[CHOOSE i \in 1..Len(items) :
              /\ items[i].object = "page"
              /\ \A j \in 1..(i - 1) : items[j].object # "page"].id

ItemIds == {it.id : it \in Items}

\* the resolver is about to create 'Documentation' under a page of the
\* unfiltered search: page mode, 'Documentation' and 'Personal Website' not found
FallbackCreatePending ==
    /\ pc = "chain_create"
    /\ results # <<>>

\* what holds of the step that follows, whether or not the call succeeds
FallbackCreateStep ==
    /\ ~cmd.as_project
    /\ Len(calls) = 3
    /\ \A i \in 1..3 : calls[i].op = "search"
    /\ calls[1].target = S_Documentation /\ calls[1].arg = None
    /\ calls[2].target = S_PersonalWebsite /\ calls[2].arg = None
    /\ calls[3].target = S_Empty
    /\ Len(calls') = 4
    /\ SubSeq(calls', 1, 3) = calls
    /\ calls'[4].op = "create"
    /\ calls'[4].arg.kind = "page_id"
    /\ calls'[4].arg.title.given = "Documentation"
    /\ calls'[4].target = FirstPageId(results)
    /\ pc' = "file"

\* C8 as stated: exactly one create-page call, titled 'Documentation', under
\* the first page of the unfiltered search, and the resolver returns the id of
\* the newly created page.
C8_ReturnsNewPage ==
    [][FallbackCreatePending =>
          /\ FallbackCreateStep
          /\ calls'[4].ok
          /\ parent_id' = calls'[4].arg.id
          /\ parent_id' \notin ItemIds \cup {None}]_vars

\* C8 as amended: exactly one create-page call, titled 'Documentation', under
\* the first page of the unfiltered search; the resolver returns the id of the
\* new page when the call succeeds and the id of that first page when it fails.
C8_CreatesUnderFirstPage ==
    [][FallbackCreatePending =>
          /\ FallbackCreateStep
          /\ IF calls'[4].ok
             THEN /\ parent_id' = calls'[4].arg.id
                  /\ parent_id' \notin ItemIds \cup {None}
             ELSE parent_id' = FirstPageId(results)]_vars

\* 'Documentation' was created under the page found by the unfiltered search
C8_Witness ==
    /\ ~cmd.as_project
    /\ pc = "file"
    /\ Len(calls) = 4
    /\ calls[3].target = S_Empty
    /\ calls[3].arg = I_notes.id
    /\ calls[4].op = "create"
    /\ calls[4].target = I_notes.id
    /\ calls[4].ok
    /\ parent_id = calls[4].arg.id

-----------------------------------------------------------------------------
(* find_parent_by_name on its own. *)

Names == {S_Documentation, S_PersonalWebsite, S_ProjectPlanner, S_Notes, S_Doc,
          S_Untitled}

InitFindSpec ==
    /\ InitProc(AuthenticatedStores) /\ InitAuth /\ InitUp(FileSystem)
    /\ fn_in \in [outcome : SearchOutcomes, name : Names]
    /\ fn_out = NotCalled
    /\ InitConv

\* find_parent_by_name(name) is called and the search does what fn_in says
CallFind ==
    /\ fn_out = NotCalled
    /\ fn_out' = FindParentByName(fn_in.outcome, fn_in.name)
    /\ UNCHANGED <<fn_in, convVars, procVars, authVars, upVars>>

NextFind == CallFind

SpecFind == InitFindSpec /\ [][NextFind]_vars

\* two characters are the same letter, whatever their case
SameLetter(x, y) ==
    \/ x = y
    \/ \E k \in 1..Len(Upper) : {x, y} = {Upper[k], LowerOf[k]}

EqualIgnoringCase(a, b) ==
    /\ Len(a) = Len(b)
    /\ \A i \in 1..Len(a) : SameLetter(a[i], b[i])

\* the item is a page or a database whose assembled title is `name`
Titled(item, name) ==
    \/ /\ item.object = "page"
       /\ EqualIgnoringCase(GetPageTitle(item), name)
    \/ /\ item.object = "database"
       /\ EqualIgnoringCase(Join(item.title), name)

\* C9: find_parent_by_name returns the id of the first item of the results
\* that is a page or database titled `name` up to case, and None when there is
\* none (or the search raised); an item whose title only contains `name`, or is
\* contained in it, is never returned.
C9_FirstExactMatch ==
    fn_out # NotCalled =>
        LET items == IF fn_in.outcome.ok THEN fn_in.outcome.results ELSE <<>>
            hits == {i \in 1..Len(items) : Titled(items[i], fn_in.name)}
        IN  IF hits = {} THEN fn_out = None
            ELSE fn_out = items[CHOOSE i \in hits : \A j \in hits : i <= j].id

\* a partial match comes first and is passed over for the exact one after it
C9_Witness ==
    /\ fn_in.name = S_Documentation
    /\ fn_in.outcome.results = <<I_docpart, I_docdb>>
    /\ fn_out = I_docdb.id

-----------------------------------------------------------------------------
(* The chunk loop on its own: one document of 0..MaxBlocks blocks uploaded   *)
(* under a parent given by id.                                                *)

BatchFileSystems ==
    {[p \in Paths |-> IF p = "a.md" THEN File(TRUE, TRUE, n) ELSE File(FALSE, FALSE, 0)] :
        n \in 0..MaxBlocks}

InitBatchSpec ==
    /\ InitProc(AuthenticatedStores) /\ InitAuth /\ InitFn
    /\ \E filesys \in BatchFileSystems : InitUp(filesys)

\* `notion upload a.md --parent <id>`
BatchCommand == Upload(<<Literal("a.md")>>, S_AnId, FALSE, "")

NextBatch ==
    \/ Start(BatchCommand)
    \/ UploadBegin
    \/ FileNext
    \/ RetrievePage
    \/ RetrieveDatabase
    \/ TitleProp
    \/ CreatePage
    \/ AppendChunk

SpecBatch == InitBatchSpec /\ [][NextBatch]_vars

\* the append-children calls of the log, in call order
AppendCalls == SelectSeq(calls, LAMBDA c : c.op = "append")

RECURSIVE ConcatArgs(_)
ConcatArgs(cs) == IF cs = <<>> THEN <<>> ELSE Head(cs).arg \o ConcatArgs(Tail(cs))

\* the document's blocks in document order
Document == [i \in 1..fs["a.md"].nblocks |-> [file |-> "a.md", n |-> i]]

\* the upload of the document went through: the page was created, every batch
\* was accepted and the loop has moved past the file
Uploaded ==
    /\ idx = 2
    /\ \E i \in 1..Len(calls) : calls[i].op = "create" /\ calls[i].ok
    /\ \A i \in 1..Len(calls) : calls[i].ok \/ calls[i].op \notin {"create", "append"}

\* C10: the append-children calls go to the page created for the file, each
\* carries between 1 and 100 blocks and each but the last sent exactly 100, and
\* together, in call order, they are a prefix of the document's blocks; once
\* the upload went through there are exactly ceil(n/100) of them and together
\* they are the document.
C10_Batching ==
    LET a == AppendCalls
        n == fs["a.md"].nblocks
    IN  /\ \A j \in 1..Len(a) : /\ a[j].target = page
                                /\ Len(a[j].arg) \in 1..100
                                /\ (j < Len(a) \/ (a[j].ok /\ pc = "append" /\ off < n))
                                       => Len(a[j].arg) = 100
        /\ Len(ConcatArgs(a)) <= n
        /\ ConcatArgs(a) = SubSeq(Document, 1, Len(ConcatArgs(a)))
        /\ Uploaded => /\ Len(a) = (n + 99) \div 100
                       /\ ConcatArgs(a) = Document

\* 250 blocks went up in three calls of 100, 100 and 50 blocks
C10_Witness ==
    /\ Uploaded
    /\ fs["a.md"].nblocks = 250
    /\ Len(AppendCalls) = 3
    /\ Len(AppendCalls[1].arg) = 100
    /\ Len(AppendCalls[2].arg) = 100
    /\ Len(AppendCalls[3].arg) = 50

-----------------------------------------------------------------------------
(* C11: a failed batch ends the file's upload and the loop goes on. *)

\* the step of the chunk loop in which append-children fails
FailedAppendStep ==
    /\ pc = "append"
    /\ Len(calls') = Len(calls) + 1
    /\ calls'[Len(calls')].op = "append"
    /\ ~calls'[Len(calls')].ok

\* C11: when an append-children batch fails, no later batch goes to the page
\* of that file and the failed batch is not sent again; the very step of the
\* failure moves the loop to the next file of the list and leaves the created
\* page and the batches already sent as they are.
C11_FailedBatchAbortsFile ==
    /\ [](\A k \in 1..Len(calls) :
            (calls[k].op = "append" /\ ~calls[k].ok) =>
                /\ \A j \in (k + 1)..Len(calls) :
                       ~(calls[j].op = "append" /\ calls[j].target = calls[k].target)
                /\ k < Len(calls) => calls[k + 1].op = "retrieve_page")
    /\ [][FailedAppendStep =>
            /\ idx' = idx + 1
            /\ pc' = "file"
            /\ created' = created
            /\ page' = page
            /\ SubSeq(calls', 1, Len(calls)) = calls]_vars

\* the first batch of b.md failed after none of its two batches went through,
\* and the next file of the list was uploaded
C11_Witness ==
    \E k \in 1..Len(calls) :
        /\ calls[k].op = "append"
        /\ ~calls[k].ok
        /\ Len(calls[k].arg) = chunk_size
        /\ \E j \in (k + 1)..Len(calls) :
               /\ calls[j].op = "append"
               /\ calls[j].ok
               /\ calls[j].target # calls[k].target

-----------------------------------------------------------------------------
(* C12: an error on one file of the list does not stop the later files. *)

\* C12: once the parent is resolved, the process ends only after the loop has
\* taken every file of the expanded list in turn, whatever went wrong for an
\* earlier file (missing, unreadable or undecodable, a failed retrieval, a
\* failed create-page, a failed append).
C12_EveryFileAttempted ==
    (pc = "exited" /\ resolution = "ok") => idx = Len(files) + 1

-----------------------------------------------------------------------------
(* C13: one invocation uploads a file at most once. *)

\* the successful create-page calls made for the file at `path`
CreatesFor(path) ==
    {k \in 1..Len(calls) :
        calls[k].op = "create" /\ calls[k].ok /\ calls[k].arg.title.stem = path}

\* the successful append-children calls that carry block b
AppendsOf(b) ==
    {k \in 1..Len(calls) :
        /\ calls[k].op = "append"
        /\ calls[k].ok
        /\ \E i \in 1..Len(calls[k].arg) : calls[k].arg[i] = b}

\* C13: within one invocation of cmd_upload at most one page is created for a
\* file and each block of a file is appended at most once, whatever the file
\* arguments and patterns are.
C13_AtMostOncePerFile ==
    \A p \in Paths :
        /\ Cardinality(CreatesFor(p)) <= 1
        /\ \A n \in 1..fs[p].nblocks :
               Cardinality(AppendsOf([file |-> p, n |-> n])) <= 1

-----------------------------------------------------------------------------
(* The converter on its own: markdown_to_notion_blocks applied to every     *)
(* document of 1..MaxLines lines taken from Lines.                           *)

L_blank == <<>>
L_spaces == <<" ", " ">>
L_h1 == <<"#", " ", "a">>
L_h2 == <<"#", "#", "a">>
L_h3 == <<"#", "#", "#", " ", "a", " ">>
L_h4 == <<"#", "#", "#", "#", " ", "a">>
L_fence == S_Fence
L_fence_blank == S_Fence \o <<" ", " ">>
L_fence_yml == S_Fence \o <<"Y", "M", "L">>
L_fence_rust == S_Fence \o <<" ", "r", "u", "s", "t">>
L_fence_jinja == S_Fence \o <<"J", "i", "n", "j", "a", "2", " ">>
L_fence_docker == S_Fence \o S_dockerfile
L_indented == <<" ">> \o S_Fence
L_bullet == <<"-", " ", "a">>
L_numbered == <<"1", "2", ".", " ", "a">>
L_para == <<"a", " ", "*", "a", "*">>

Lines == {L_blank, L_spaces, L_h1, L_h2, L_h3, L_h4, L_fence, L_fence_blank,
          L_fence_yml, L_fence_rust, L_fence_jinja, L_fence_docker, L_indented,
          L_bullet, L_numbered, L_para}

\* what markdown_content.split('\n') can be: at least one line
Documents == UNION {[1..n -> Lines] : n \in 1..MaxLines}

InitConvertSpec ==
    /\ InitProc(AuthenticatedStores) /\ InitAuth /\ InitUp(FileSystem)
    /\ fn_in = <<>>
    /\ fn_out = NotCalled
    /\ lines \in Documents
    /\ line_i = 0
    /\ md_blocks = <<>>
    /\ code_lines = <<>>
    /\ language = <<>>
    /\ conv_pc = "loop"

NextConvert ==
    \/ ConvLine
    \/ ConvFence
    \/ ConvReturn

SpecConvert == InitConvertSpec /\ [][NextConvert]_vars

\* one line of each kind the loop tells apart: blank, heading, fence with and
\* without a tag, a fence that is indented, list item, paragraph
LiveLines == {L_blank, L_spaces, L_h1, L_fence, L_fence_rust, L_indented,
              L_bullet, L_para}

InitConvertLiveSpec ==
    InitConvertSpec /\ \A j \in 1..Len(lines) : lines[j] \in LiveLines

\* the converter is one sequential call: it runs until it returns
SpecConvertLive == InitConvertLiveSpec /\ [][NextConvert]_vars /\ WF_vars(NextConvert)

-----------------------------------------------------------------------------
(* C14: the converter returns, and an open fence takes the rest of the input. *)

\* the lines that open or close a fence
FenceLines == {j \in 1..Len(lines) : StartsWith(lines[j], S_Fence)}

\* the one fence line of a document whose only fence is never closed
OpenFence == CHOOSE j \in FenceLines : TRUE

\* the lines before line j that are not blank: one block each
BlocksBefore(j) == Cardinality({k \in 1..(j - 1) : RStrip(lines[k]) # <<>>})

\* C14: the conversion of every document returns; when the document has one
\* fence line only (a fence that is never closed), the blocks returned are
\* those of the lines before it followed by exactly one code block, the last
\* block, whose text is every line after the fence line joined by newlines.
C14_ConverterTerminates ==
    /\ <>(conv_pc = "done")
    /\ []((conv_pc = "done" /\ Cardinality(FenceLines) = 1) =>
            /\ Len(md_blocks) = BlocksBefore(OpenFence) + 1
            /\ md_blocks[Len(md_blocks)].type = "code"
            /\ md_blocks[Len(md_blocks)].text =
                   JoinLines(SubSeq(lines, OpenFence + 1, Len(lines)))
            /\ \A k \in 1..(Len(md_blocks) - 1) : md_blocks[k].type # "code")

\* a fence opened on line 1 and never closed took a blank line and a heading
C14_Witness ==
    /\ conv_pc = "done"
    /\ lines = <<L_fence_rust, L_blank, L_h1>>
    /\ Len(md_blocks) = 1
    /\ md_blocks[1].text = <<"\n", "#", " ", "a">>

-----------------------------------------------------------------------------
(* C15: the heading level is the number of leading '#', at most 3. *)

\* the number of '#' characters the line begins with
RECURSIVE Hashes(_)
Hashes(line) ==
    IF line # <<>> /\ Head(line) = "#" THEN 1 + Hashes(Tail(line)) ELSE 0

HeadingOfLevel == <<"heading_1", "heading_2", "heading_3">>

\* C15: when the loop takes a line that begins with exactly k >= 1 '#'
\* characters, it appends one block, a heading of level min(k, 3).
C15_HeadingLevel ==
    [][(conv_pc = "loop" /\ line_i < Len(lines) /\ Hashes(lines[line_i + 1]) >= 1) =>
        LET k == Hashes(lines[line_i + 1])
        IN  /\ Len(md_blocks') = Len(md_blocks) + 1
            /\ SubSeq(md_blocks', 1, Len(md_blocks)) = md_blocks
            /\ md_blocks'[Len(md_blocks')].type = HeadingOfLevel[IF k < 3 THEN k ELSE 3]]_vars

\* lines of 2, 3 and 4 leading '#' became headings of level 2, 3 and 3
C15_Witness ==
    /\ conv_pc = "done"
    /\ lines = <<L_h2, L_h3, L_h4>>
    /\ md_blocks[1].type = "heading_2"
    /\ md_blocks[2].type = "heading_3"
    /\ md_blocks[3].type = "heading_3"
    /\ md_blocks[3].text = <<"a">>

-----------------------------------------------------------------------------
(* The inline parser on its own: parse_inline_formatting applied to every   *)
(* paragraph line of at most MaxText characters and to two longer ones.      *)

InlineAlphabet == {"a", " ", "*", Backtick}

\* a **a** a *a* a `a` a
T_mixed == <<"a", " ", "*", "*", "a", "*", "*", " ", "a", " ", "*", "a", "*", " ", "a",
             " ", Backtick, "a", Backtick, " ", "a">>

\* **a** *a*
T_adjacent == <<"*", "*", "a", "*", "*", " ", "*", "a", "*">>

\* the lines the converter hands to parse_inline_formatting: rstripped, not
\* empty, and none of heading, fence or list item
IsParagraphLine(text) ==
    /\ text # <<>>
    /\ RStrip(text) = text
    /\ ~StartsWith(text, S_Fence)
    /\ ~StartsWith(text, <<"*", " ">>)

InlineTexts ==
    {text \in UNION {[1..n -> InlineAlphabet] : n \in 1..MaxText} : IsParagraphLine(text)}
        \cup {T_mixed, T_adjacent}

\* the function always returns at least one span: <<>> stands for no call yet
InitInlineSpec ==
    /\ InitProc(AuthenticatedStores) /\ InitAuth /\ InitUp(FileSystem) /\ InitConv
    /\ fn_in \in InlineTexts
    /\ fn_out = <<>>

CallInline ==
    /\ fn_out = <<>>
    /\ fn_out' = ParseInlineFormatting(fn_in)
    /\ UNCHANGED <<fn_in, convVars, procVars, authVars, upVars>>

NextInline == CallInline

SpecInline == InitInlineSpec /\ [][NextInline]_vars

-----------------------------------------------------------------------------
(* C16: the spans hold every character of the line that is not a marker. *)

\* the contents of the spans, concatenated in order
RECURSIVE Contents(_)
Contents(spans) ==
    IF spans = <<>> THEN <<>> ELSE Head(spans).content \o Contents(Tail(spans))

\* a matched span without its delimiters: two characters at each end of a
\* bold match, one at each end of an italic or code match
Undelimited(match) ==
    IF Len(match) >= 4 /\ StartsWith(match, S_Stars) THEN Slice(match, 2, 2)
    ELSE Slice(match, 1, 1)

\* the parts of re.split with the delimiters of the matches (the parts at
\* even positions) removed, concatenated
RECURSIVE NonMarker(_, _)
NonMarker(parts, k) ==
    IF k > Len(parts) THEN <<>>
    ELSE (IF k % 2 = 0 THEN Undelimited(parts[k]) ELSE parts[k]) \o NonMarker(parts, k + 1)

\* C16: the contents of the spans returned for a paragraph line, concatenated
\* in order, are the line with the delimiters of its matched bold, italic and
\* code spans removed, whitespace between two styled spans included.
C16_Lossless ==
    fn_out # <<>> => Contents(fn_out) = NonMarker(Split(fn_in, 1, 1), 1)

-----------------------------------------------------------------------------
(* C17: the spans are the matches, by priority, and the text between them. *)

\* the span of a match: bold for a match of the first alternative (it has
\* two characters at each end), then italic, then code
MatchSpan(match) ==
    IF Len(match) >= 4 /\ StartsWith(match, S_Stars) THEN Span("bold", Undelimited(match))
    ELSE IF StartsWith(match, S_Star) THEN Span("italic", Undelimited(match))
    ELSE Span("code", Undelimited(match))

\* one span per match and one plain span per literal text between matches;
\* a literal text of whitespace only is left out here (C16 is about it)
RECURSIVE Partition(_, _)
Partition(parts, k) ==
    IF k > Len(parts) THEN <<>>
    ELSE (IF k % 2 = 0 THEN <<MatchSpan(parts[k])>>
          ELSE IF Strip(parts[k]) # <<>> THEN <<Span("plain", parts[k])>>
          ELSE <<>>) \o Partition(parts, k + 1)

\* C17: the spans returned for a paragraph line are, left to right, its
\* matched marker spans (bold tried before italic before code at each
\* position, each match ending at the nearest closing marker) and the literal
\* text between them as plain spans; the line a **a** a *a* a _a_ a (with grave
\* accents for _) gives plain, bold, plain, italic, plain, code, plain, and
\* **a** alone is one bold span.
C17_PartitionByPriority ==
    fn_out # <<>> =>
        /\ fn_out = Partition(Split(fn_in, 1, 1), 1)
        /\ fn_in = T_mixed =>
               fn_out = <<Span("plain", <<"a", " ">>), Span("bold", <<"a">>),
                          Span("plain", <<" ", "a", " ">>), Span("italic", <<"a">>),
                          Span("plain", <<" ", "a", " ">>), Span("code", <<"a">>),
                          Span("plain", <<" ", "a">>)>>
        /\ fn_in = <<"*", "*", "a", "*", "*">> => fn_out = <<Span("bold", <<"a">>)>>

-----------------------------------------------------------------------------
(* C18: the language tag stored for a fenced code block. *)

\* the tag the table gives for an info string: the string without the
\* whitespace around it, lowercased, then jinja2 -> html, yml -> yaml,
\* dockerfile -> docker, empty -> plain text
TagFor(info) ==
    LET tag == Lower(Strip(info))
    IN  CASE tag = <<"j","i","n","j","a","2">> -> <<"h","t","m","l">>
          [] tag = <<"y","m","l">> -> <<"y","a","m","l">>
          [] tag = <<"d","o","c","k","e","r","f","i","l","e">> -> <<"d","o","c","k","e","r">>
          [] tag = <<>> -> <<"p","l","a","i","n"," ","t","e","x","t">>
          [] OTHER -> tag

\* C18: a document whose first line opens a fence gets as its first block a
\* code block whose language is the info string lowercased and passed through
\* the table (YML gives yaml, rust stays rust), and no code block of any
\* document has the empty string as its language.
C18_LanguageTag ==
    conv_pc = "done" =>
        /\ StartsWith(lines[1], S_Fence) =>
               /\ md_blocks[1].type = "code"
               /\ md_blocks[1].language = TagFor(Slice(lines[1], 3, 0))
        /\ lines[1] = L_fence_yml => md_blocks[1].language = <<"y","a","m","l">>
        /\ lines[1] = L_fence_rust => md_blocks[1].language = <<"r","u","s","t">>
        /\ \A k \in 1..Len(md_blocks) :
               md_blocks[k].type = "code" => md_blocks[k].language # <<>>

\* a fence tagged YML around one line was stored with the language yaml
C18_Witness ==
    /\ conv_pc = "done"
    /\ lines = <<L_fence_yml, L_para, L_fence_jinja>>
    /\ Len(md_blocks) = 1
    /\ md_blocks[1].language = <<"y","a","m","l">>
    /\ md_blocks[1].text = L_para

-----------------------------------------------------------------------------
(* C19: the listener has stopped before the token exchange is sent. *)

\* C19: every token-exchange POST is sent with the callback listener shut
\* down, the listener is down for as long as the exchange is in progress, and
\* no request is served from then on.
C19_ShutdownBeforeExchange ==
    /\ [](/\ \A k \in 1..Len(posts) : posts[k].server = "down"
          /\ pc = "auth_exchange" => oauth_server = "down")
    /\ [][(pc = "auth_exchange" \/ posts # <<>>) =>
            /\ served' = served
            /\ authorization_code' = authorization_code
            /\ oauth_server' = "down"]_vars

\* an exchange was sent after the listener had served a callback and stopped
C19_Witness ==
    /\ Len(posts) = 1
    /\ posts[1].server = "down"
    /\ posts[1].code = "c1"
    /\ served >= 1
    /\ oauth_server = "down"

-----------------------------------------------------------------------------
(* C20: what the callback handler does with a request. *)

\* the listener handles a request in this step
ServeStep == served' = served + 1

\* C20: a GET on the callback path that carries a code stores that code in
\* the authorization-code slot and is answered 200; one that carries an error
\* and no code is answered 400 and leaves the slot as it was.
C20_CallbackOutcomes ==
    [][(ServeStep /\ last_request'.path = P_callback) =>
        /\ last_request'.code # NoCode =>
               /\ authorization_code' = last_request'.code
               /\ last_response' = 200
        /\ (last_request'.error /\ last_request'.code = NoCode) =>
               /\ authorization_code' = authorization_code
               /\ last_response' = 400]_vars

\* an error callback was answered 400 after a code had been stored, and the
\* code is still in the slot
C20_Witness ==
    /\ served = 2
    /\ last_request = Request(P_callback, NoCode, TRUE)
    /\ last_response = 400
    /\ authorization_code = "c1"

-----------------------------------------------------------------------------
(* C21: only /notion-callback can store a code. *)

\* C21: a request whose path is not /notion-callback, one that only begins
\* with those characters included, leaves the authorization-code slot as it
\* was.
C21_OnlyCallbackPathStores ==
    [][(ServeStep /\ last_request'.path # P_callback) =>
        authorization_code' = authorization_code]_vars

-----------------------------------------------------------------------------
(* C22: the code exchanged is the code the polling loop saw. *)

\* C22: the code sent in a token exchange is the code the polling loop read
\* from the slot when it left the wait; a callback served after that, before
\* the listener has stopped, does not change it.
C22_ExchangesObservedCode ==
    \A k \in 1..Len(posts) : posts[k].code = observed

-----------------------------------------------------------------------------
(* C23: the PKCE verifier never reaches the config file. *)

ConfigKeys == {"access_token", "token", "workspace_id", "workspace_name"}

\* C23: no value of the config file, nor of self.config, is the code
\* verifier; a write of the config file by auth sets access_token,
\* workspace_id and workspace_name from the token response and keeps what the
\* config loaded at start-up held under any other key.
C23_VerifierNotPersisted ==
    /\ [](\A key \in ConfigKeys :
            /\ store.data[key] \notin Verifiers
            /\ config[key] \notin Verifiers)
    /\ [][store' # store =>
            /\ Len(posts') = Len(posts) + 1
            /\ store'.file = "json"
            /\ store'.data.access_token = posts'[Len(posts')].access_token
            /\ store'.data.workspace_id = Get(posts'[Len(posts')].workspace_id)
            /\ store'.data.workspace_name = Get(posts'[Len(posts')].workspace_name)
            /\ store'.data.token = config0.token]_vars

\* auth succeeded with a verifier in memory over a config file that held a
\* legacy token: the file has the new token, the workspace and the old key
C23_Witness ==
    /\ result = "Authenticated"
    /\ code_verifier = "v1"
    /\ posts[1].code_verifier = "v1"
    /\ store0.data.token = "T0"
    /\ store.data = [access_token |-> "A1", token |-> "T0",
                     workspace_id |-> "ws1", workspace_name |-> "Acme"]

-----------------------------------------------------------------------------
(* C24: one block per non-blank line outside a fence, by the first rule that *)
(* matches, in the order of the lines.                                       *)

\* the kind of a line that is not blank: the first rule that matches
KindOfLine(line) ==
    IF Head(line) = "#" THEN "heading"
    ELSE IF StartsWith(line, S_Fence) THEN "code"
    ELSE IF StartsWith(line, <<"-", " ">>) \/ StartsWith(line, <<"*", " ">>)
    THEN "bulleted_list_item"
    ELSE IF \E n \in 1..(Len(line) - 2) :
                /\ \A k \in 1..n : line[k] \in Digit
                /\ line[n + 1] = "."
                /\ line[n + 2] = " "
    THEN "numbered_list_item"
    ELSE "paragraph"

\* the line after the fence line that closes the region begun before line j,
\* Len(doc) + 1 when no line closes it
RECURSIVE AfterFence(_, _)
AfterFence(doc, j) ==
    IF j > Len(doc) THEN j
    ELSE IF StartsWith(doc[j], S_Fence) THEN j + 1
    ELSE AfterFence(doc, j + 1)

\* the kinds of the blocks of lines j.. of doc, line by line
RECURSIVE KindsFrom(_, _)
KindsFrom(doc, j) ==
    IF j > Len(doc) THEN <<>>
    ELSE IF RStrip(doc[j]) = <<>> THEN KindsFrom(doc, j + 1)
    ELSE IF KindOfLine(RStrip(doc[j])) = "code"
    THEN <<"code">> \o KindsFrom(doc, AfterFence(doc, j + 1))
    ELSE <<KindOfLine(RStrip(doc[j]))>> \o KindsFrom(doc, j + 1)

KindOfBlock(b) ==
    IF b.type \in {"heading_1", "heading_2", "heading_3"} THEN "heading" ELSE b.type

\* C24: the blocks returned are, in the order of the lines, one block per
\* non-blank line outside a fenced region, of the kind of the first rule that
\* matches the line (heading, fence, bullet, numbered, paragraph), and one
\* code block per fenced region; blank lines give nothing; the converter only
\* ever appends to its blocks while it moves down the lines.
C24_Classification ==
    /\ [](conv_pc = "done" =>
            [k \in 1..Len(md_blocks) |-> KindOfBlock(md_blocks[k])] = KindsFrom(lines, 1))
    /\ [][/\ line_i' >= line_i
          /\ \/ md_blocks' = md_blocks
             \/ /\ Len(md_blocks') = Len(md_blocks) + 1
                /\ SubSeq(md_blocks', 1, Len(md_blocks)) = md_blocks]_vars

\* a numbered item, a blank line and a paragraph gave two blocks, in order
C24_Witness ==
    /\ conv_pc = "done"
    /\ lines = <<L_numbered, L_spaces, L_para>>
    /\ Len(md_blocks) = 2
    /\ md_blocks[1].type = "numbered_list_item"
    /\ md_blocks[1].text = <<"a">>
    /\ md_blocks[2].type = "paragraph"

-----------------------------------------------------------------------------
(* C25: a marker without a closing marker stays plain text. *)

\* no bold, italic or code pair matches anywhere in the text
NoPairMatches(text) == \A p \in 1..Len(text) : MatchEnd(text, p) = 0

\* the literal texts between the matches that hold a marker
UnmatchedMarkers(text) ==
    {Split(text, 1, 1)[k] : k \in {j \in 1..Len(Split(text, 1, 1)) :
        /\ j % 2 = 1
        /\ \E n \in 1..Len(Split(text, 1, 1)[j]) :
               Split(text, 1, 1)[j][n] \in {"*", Backtick}}}

\* C25: a line in which no marker pair matches comes back as one plain span
\* holding the whole line, and every literal text with an unmatched star or
\* grave accent in it is the content of a plain span.
C25_UnmatchedStaysPlain ==
    fn_out # <<>> =>
        /\ NoPairMatches(fn_in) => fn_out = <<Span("plain", fn_in)>>
        /\ \A part \in UnmatchedMarkers(fn_in) :
               \E k \in 1..Len(fn_out) : fn_out[k] = Span("plain", part)

-----------------------------------------------------------------------------
(* C26: list and search only read, and list reports the items of the type. *)

IdsOf(items) == [i \in 1..Len(items) |-> items[i].id]

OfType(item, type) ==
    \/ type = "all"
    \/ type = "pages" /\ item.object = "page"
    \/ type = "databases" /\ item.object = "database"

\* the items of the asked type, in the order returned
RECURSIVE Wanted(_, _)
Wanted(items, type) ==
    IF items = <<>> THEN <<>>
    ELSE (IF OfType(Head(items), type) THEN <<Head(items)>> ELSE <<>>)
            \o Wanted(Tail(items), type)

\* the step writes nothing and leaves no call but search in the log
ReadsOnly ==
    /\ store' = store
    /\ config' = config
    /\ saves' = saves
    /\ created' = created
    /\ \A k \in 1..Len(calls') : calls'[k].op = "search"

\* the items reported by the step are those of the asked type
ReportsType ==
    (Len(calls') > Len(calls) /\ calls'[Len(calls')].ok) =>
        listed' = IdsOf(Wanted(results', cmd.type))

ListingReadsOnly == [][(pc = "list" \/ pc = "search") => ReadsOnly]_vars

\* C26: a step of cmd_list or cmd_search leaves the config store and the
\* workspace as they were and issues no call but search; when the search of
\* cmd_list returns, the items reported are the returned pages for pages, the
\* returned databases for databases, and every returned item for all.
C26_ReadOnlyListing ==
    /\ ListingReadsOnly
    /\ [][pc = "list" => ReportsType]_vars

-----------------------------------------------------------------------------
(* C27: a config file that is missing or is not JSON is the empty config. *)

-----------------------------------------------------------------------------
(* C28: a failed creation of 'Documentation' leaves the intended parent. *)

\* the create-page calls of create_documentation_page that failed: the only
\* create-page call issued right after a search
FailedDocCreates ==
    {k \in 2..Len(calls) :
        calls[k].op = "create" /\ ~calls[k].ok /\ calls[k - 1].op = "search"}

\* the step of create_documentation_page whose create-page call fails
DocCreateFails == pc = "chain_create" /\ ~calls'[Len(calls')].ok

\* C28: when the create-page call of create_documentation_page fails, the
\* resolver returns the id it was to create the page under, no resolution
\* error is reported and the upload goes on to the files; every page created
\* for a file afterwards is created under that id, which is the id of a
\* database when 'Personal Website' was found as a database.
C28_FailedCreateFallsBack ==
    /\ [][DocCreateFails =>
            /\ parent_id' = doc_parent
            /\ parent_id' = calls'[Len(calls')].target
            /\ resolution' = "ok"
            /\ pc' = "file"
            /\ exit_code' = "running"
            /\ created' = created]_vars
    /\ [](\A k \in FailedDocCreates :
            /\ parent_id = calls[k].target
            /\ resolution = "ok"
            /\ \A j \in (k + 1)..Len(calls) :
                   calls[j].op = "create" => calls[j].target = calls[k].target)

\* 'Personal Website' was found as a database, 'Documentation' could not be
\* created under it, and the file's page was created in that database
C28_Witness ==
    /\ ~cmd.as_project
    /\ Len(calls) = 7
    /\ calls[2].target = S_PersonalWebsite
    /\ calls[2].arg = I_pwdb.id
    /\ calls[3].op = "create"
    /\ calls[3].target = I_pwdb.id
    /\ ~calls[3].ok
    /\ parent_id = I_pwdb.id
    /\ resolution = "ok"
    /\ calls[7].op = "create"
    /\ calls[7].target = I_pwdb.id
    /\ calls[7].arg.kind = "database_id"
    /\ calls[7].ok

====
